---- MODULE Spec2Model ----
(***************************************************************************)
(* Model of rhg_pulumi_resources.gcp.infra: the WorkerPoolCluster and      *)
(* WorkloadIdentity components.  A component constructor registers the     *)
(* component and then issues a fixed sequence of child resource requests   *)
(* to the Pulumi engine; the engine afterwards creates the registered      *)
(* resources in any order that respects their dependencies.                *)
(***************************************************************************)
EXTENDS Integers, Sequences, FiniteSets, TLC

VARIABLES
    env,          \* pulumi.get_stack(), pulumi.get_project(), Config("gcp").get("project")
    registered,   \* resource requests issued so far, in program order
    wpc,          \* the WorkerPoolCluster objects constructed (attributes + arguments)
    wi,           \* the WorkloadIdentity objects constructed (attributes + arguments)
    created       \* ids of the resources the engine has created

vars == <<env, registered, wpc, wi, created>>

----------------------------------------------------------------------------
(* Python values *)

\* Python's None, and a value that is not None
None == [isNone |-> TRUE]
Some(v) == [isNone |-> FALSE, val |-> v]

\* str(x) of an optional string, as str.format and f-strings apply it
Str(x) == IF x.isNone THEN "None" ELSE x.val

\* str(b).lower() of a bool
StrLower(b) == IF b THEN "true" ELSE "false"

\* bool(x) of a bool
Bool(x) == (x = TRUE)

\* d[k] = v on a dict
DictSet(d, k, v) == [x \in (DOMAIN d) \cup {k} |-> IF x = k THEN v ELSE d[x]]

----------------------------------------------------------------------------
(* Bounds and input sets *)

MaxIdentities == 2

Stacks == {"dev"}
Projects == {"infra"}
GcpProjects == {None, Some("rhg-project")}

ResourceNames == {"alpha", "beta"}
CustomScopes == <<"https://www.googleapis.com/auth/cloud-platform">>

----------------------------------------------------------------------------
(* Module constants *)

TYPE_PACKAGE_NAME == "rhg"
TYPE_INDEX_NAME == "gcp"
ModuleName == "rhg_pulumi_resources.gcp.infra"

pulumi_type_name(component, package, index) ==
    LET idx == IF index.isNone THEN ModuleName ELSE index.val
    IN  package \o ":" \o idx \o ":" \o component

\* A resource is identified by its type and name
Id(type, name) == <<type, name>>

\* An Output of a resource (e.g. cluster.name)
Out(id, attr) == [resource |-> id, attr |-> attr]

NoProvider == None

\* pulumi.ResourceOptions(parent=, provider=, depends_on=)
ResourceOptions(parent, provider, depends_on) ==
    [parent |-> parent, provider |-> provider, depends_on |-> depends_on]

\* A resource request: the constructor call of a provider resource
Request(type, name, props, refs, opts) ==
    [type |-> type, name |-> name, id |-> Id(type, name), props |-> props,
     refs |-> refs, opts |-> opts]

\* super().__init__(resource_type, resource_name, None, opts)
ComponentRequest(type, name) ==
    Request(type, name, None, {}, ResourceOptions(None, NoProvider, {}))

----------------------------------------------------------------------------
(* WorkerPoolCluster *)

DefaultOauthScopes ==
    << "https://www.googleapis.com/auth/devstorage.read_only",
       "https://www.googleapis.com/auth/logging.write",
       "https://www.googleapis.com/auth/monitoring",
       "https://www.googleapis.com/auth/service.management.readonly",
       "https://www.googleapis.com/auth/servicecontrol",
       "https://www.googleapis.com/auth/trace.append" >>

\* The defaults of the keyword arguments of WorkerPoolCluster.__init__
WorkerPoolClusterDefaults(resource_name) ==
    [ resource_name       |-> resource_name,
      machinetype_core    |-> "n1-standard-4",
      machinetype_worker  |-> "n1-highmem-8",
      disk_size_gb_core   |-> 100,
      disk_size_gb_worker |-> 100,
      disktype_core       |-> "pd-standard",
      disktype_worker     |-> "pd-standard",
      nodecountminmax_core   |-> <<0, 5>>,
      nodecountminmax_worker |-> <<0, 10>>,
      preemptible_core    |-> FALSE,
      preemptible_worker  |-> TRUE,
      image_type          |-> None,
      min_cluster_version |-> None,
      release_channel     |-> None,
      oauthscopes         |-> None,
      enable_servicemesh  |-> FALSE ]

\* The calls of WorkerPoolCluster(...) the model makes: the defaults, with
\* any of preemptible_core, preemptible_worker, oauthscopes and
\* enable_servicemesh passed explicitly.
WorkerPoolClusterArgs ==
    { [ WorkerPoolClusterDefaults(n) EXCEPT
            !.preemptible_core = pc, !.preemptible_worker = pw,
            !.oauthscopes = sc, !.enable_servicemesh = sm ] :
        n \in ResourceNames, pc \in BOOLEAN, pw \in BOOLEAN,
        sc \in {None, Some(CustomScopes)}, sm \in BOOLEAN }

WorkerPoolClusterType ==
    pulumi_type_name("WorkerPoolCluster", TYPE_PACKAGE_NAME, Some(TYPE_INDEX_NAME))

OauthScopes(a) ==
    IF a.oauthscopes.isNone THEN DefaultOauthScopes ELSE a.oauthscopes.val

common_resource_labels(e) ==
    ("managed-by" :> "pulumi") @@ ("env" :> e.stack) @@ ("pulumi-project" :> e.project)

core_resource_labels(a, e) ==
    IF a.preemptible_core
    THEN DictSet(common_resource_labels(e), "preemptible", StrLower(a.preemptible_core))
    ELSE common_resource_labels(e)

worker_resource_labels(a, e) ==
    LET l == DictSet(common_resource_labels(e), "dedicated", "worker")
    IN  IF a.preemptible_worker
        THEN DictSet(l, "preemptible", StrLower(a.preemptible_worker))
        ELSE l

ClusterRequest(self, a, e) ==
    Request("gcp:container/cluster:Cluster", a.resource_name,
        [ min_master_version |-> a.min_cluster_version,
          maintenance_policy |->
              [recurringWindow |-> [startTime |-> "2020-01-05T12:00:00Z",
                                    endTime |-> "2020-01-06T12:00:00Z",
                                    recurrence |-> "FREQ=WEEKLY"]],
          resource_labels |-> common_resource_labels(e),
          release_channel |-> a.release_channel,
          initial_node_count |-> 1,
          remove_default_node_pool |-> TRUE,
          workload_identity_config |->
              [identityNamespace |-> Str(e.gcp_project) \o ".svc.id.goog"],
          addons_config |->
              [istioConfig |-> [disabled |-> ~ a.enable_servicemesh]] ],
        {},
        ResourceOptions(Some(self), NoProvider, {}))

WorkerTaints ==
    << [key |-> "dedicated", value |-> "worker", effect |-> "NO_SCHEDULE"] >>

NodePoolCoreRequest(self, cluster, a, e) ==
    Request("gcp:container/nodePool:NodePool", "nodepool-core",
        [ cluster |-> Out(cluster, "name"),
          autoscaling |-> [maxNodeCount |-> a.nodecountminmax_core[2],
                           minNodeCount |-> a.nodecountminmax_core[1]],
          initial_node_count |-> 1,
          management |-> [autoRepair |-> TRUE, autoUpgrade |-> TRUE],
          node_config |->
              [ image_type |-> a.image_type,
                disk_size_gb |-> a.disk_size_gb_core,
                diskType |-> a.disktype_core,
                machine_type |-> a.machinetype_core,
                labels |-> core_resource_labels(a, e),
                oauthScopes |-> OauthScopes(a),
                preemptible |-> Bool(a.preemptible_core),
                workloadMetadataConfig |-> [nodeMetadata |-> "GKE_METADATA_SERVER"] ] ],
        {cluster},
        ResourceOptions(Some(self), NoProvider, {}))

\* A slip that copies the core pool's flag into the worker pool
WorkerPreemptible_FromCore(a) == Bool(a.preemptible_core)

\* "preemptible" of the worker pool's node_config
WorkerPreemptible(a) == Bool(a.preemptible_worker)

NodePoolWorkerRequest(self, cluster, a, e) ==
    Request("gcp:container/nodePool:NodePool", "nodepool-worker",
        [ cluster |-> Out(cluster, "name"),
          autoscaling |-> [maxNodeCount |-> a.nodecountminmax_worker[2],
                           minNodeCount |-> a.nodecountminmax_worker[1]],
          initial_node_count |-> 1,
          management |-> [autoRepair |-> TRUE, autoUpgrade |-> TRUE],
          node_config |->
              [ image_type |-> a.image_type,
                disk_size_gb |-> a.disk_size_gb_worker,
                diskType |-> a.disktype_worker,
                labels |-> worker_resource_labels(a, e),
                machine_type |-> a.machinetype_worker,
                oauthScopes |-> OauthScopes(a),
                preemptible |-> WorkerPreemptible(a),
                taints |-> WorkerTaints,
                workloadMetadataConfig |-> [nodeMetadata |-> "GKE_METADATA_SERVER"] ] ],
        {cluster},
        ResourceOptions(Some(self), NoProvider, {}))

\* A slip that issues the worker pool before the core pool
WorkerPoolClusterRequests_WorkerFirst(a, e) ==
    LET self    == Id(WorkerPoolClusterType, a.resource_name)
        cluster == ClusterRequest(self, a, e)
        core    == NodePoolCoreRequest(self, cluster.id, a, e)
        worker  == NodePoolWorkerRequest(self, cluster.id, a, e)
    IN  << ComponentRequest(WorkerPoolClusterType, a.resource_name),
           cluster, worker, core >>

\* The requests WorkerPoolCluster.__init__ issues, in program order: the
\* component itself, then its children.
WorkerPoolClusterRequests(a, e) ==
    LET self    == Id(WorkerPoolClusterType, a.resource_name)
        cluster == ClusterRequest(self, a, e)
        core    == NodePoolCoreRequest(self, cluster.id, a, e)
        worker  == NodePoolWorkerRequest(self, cluster.id, a, e)
    IN  << ComponentRequest(WorkerPoolClusterType, a.resource_name),
           cluster, core, worker >>

\* The attributes WorkerPoolCluster.__init__ sets on self
WorkerPoolClusterObject(a, e) ==
    LET reqs == WorkerPoolClusterRequests(a, e)
    IN  [ self |-> reqs[1].id, args |-> a,
          cluster |-> reqs[2].id,
          nodepool_core |-> reqs[3].id,
          nodepool_worker |-> reqs[4].id ]

\* Two resources of one type and name cannot be registered in one program.
RegisteredIds == {registered[i].id : i \in 1..Len(registered)}

WorkerPoolClusterInit(a) ==
    /\ Len(wpc) = 0
    /\ \A i \in 1..Len(WorkerPoolClusterRequests(a, env)) :
           WorkerPoolClusterRequests(a, env)[i].id \notin RegisteredIds
    /\ registered' = registered \o WorkerPoolClusterRequests(a, env)
    /\ wpc' = Append(wpc, WorkerPoolClusterObject(a, env))
    /\ UNCHANGED <<env, wi, created>>

----------------------------------------------------------------------------
(* WorkloadIdentity *)

\* The calls of WorkloadIdentity(...) the model makes; gcp_display_name
\* defaults to None.
WorkloadIdentityArgs ==
    [ resource_name    : ResourceNames,
      gcp_account_id   : {"acct"},
      k8s_sa_name      : {"ksa"},
      k8s_provider     : {Some("k8s-provider")},
      gcp_display_name : {None, Some("Display")} ]

WorkloadIdentityType ==
    pulumi_type_name("WorkloadIdentity", TYPE_PACKAGE_NAME, Some(TYPE_INDEX_NAME))

DisplayName(a) ==
    IF a.gcp_display_name.isNone THEN a.gcp_account_id ELSE a.gcp_display_name.val

GcpServiceAccountRequest(self, a, e) ==
    Request("gcp:serviceAccount/account:Account",
        a.resource_name \o "-gcp-serviceaccount",
        [ account_id |-> a.gcp_account_id,
          display_name |-> DisplayName(a),
          description |-> "Managed by pulumi project " \o e.project
                              \o " (" \o e.stack \o ")" ],
        {},
        ResourceOptions(Some(self), NoProvider, {}))

K8sServiceAccountRequest(self, gsa, a, e) ==
    Request("kubernetes:core/v1:ServiceAccount",
        a.resource_name \o "-k8s-serviceaccount",
        [ metadata |->
            [ name |-> a.k8s_sa_name,
              labels |-> ("env" :> e.stack) @@ ("pulumi-project" :> e.project)
                             @@ ("managed-by" :> "pulumi"),
              annotations |->
                  ("iam.gke.io/gcp-service-account" :> Out(gsa, "email")) ] ],
        {gsa},
        ResourceOptions(Some(self), a.k8s_provider, {}))

\* A slip that leaves the Kubernetes service account out of depends_on
IAMMemberDependsOn_GsaOnly(gsa, ksa) == {gsa}

\* depends_on of the IAM member
IAMMemberDependsOn(gsa, ksa) == {gsa, ksa}

IAMMemberRequest(self, gsa, ksa, a) ==
    Request("gcp:serviceAccount/iAMMember:IAMMember",
        a.resource_name \o "-sa-binding-iammember",
        [ service_account_id |-> << Out(gsa, "project"), Out(gsa, "email") >>,
          member |-> << Out(gsa, "project"), Out(ksa, "metadata") >>,
          role |-> "roles/iam.workloadIdentityUser" ],
        {gsa, ksa},
        ResourceOptions(Some(self), NoProvider, IAMMemberDependsOn(gsa, ksa)))

WorkloadIdentityRequests(a, e) ==
    LET self == Id(WorkloadIdentityType, a.resource_name)
        gsa  == GcpServiceAccountRequest(self, a, e)
        ksa  == K8sServiceAccountRequest(self, gsa.id, a, e)
        iam  == IAMMemberRequest(self, gsa.id, ksa.id, a)
    IN  << ComponentRequest(WorkloadIdentityType, a.resource_name),
           gsa, ksa, iam >>

WorkloadIdentityObject(a, e) ==
    LET reqs == WorkloadIdentityRequests(a, e)
    IN  [ self |-> reqs[1].id, args |-> a,
          gcp_serviceaccount |-> reqs[2].id,
          k8s_serviceaccount |-> reqs[3].id,
          sa_binding_iammember |-> reqs[4].id ]

WorkloadIdentityInit(a) ==
    /\ Len(wi) < MaxIdentities
    /\ \A i \in 1..Len(WorkloadIdentityRequests(a, env)) :
           WorkloadIdentityRequests(a, env)[i].id \notin RegisteredIds
    /\ registered' = registered \o WorkloadIdentityRequests(a, env)
    /\ wi' = Append(wi, WorkloadIdentityObject(a, env))
    /\ UNCHANGED <<env, wpc, created>>

----------------------------------------------------------------------------
(* The engine: creates a registered resource once everything it depends    *)
(* on has been created.                                                    *)

ParentOf(r) == IF r.opts.parent.isNone THEN {} ELSE {r.opts.parent.val}

\* Resources a request waits for: its parent, the resources whose outputs
\* are among its arguments, and its depends_on.
Dependencies(r) == ParentOf(r) \cup r.refs \cup r.opts.depends_on

Apply(i) ==
    /\ registered[i].id \notin created
    /\ Dependencies(registered[i]) \subseteq created
    /\ created' = created \cup {registered[i].id}
    /\ UNCHANGED <<env, registered, wpc, wi>>

----------------------------------------------------------------------------

Init ==
    /\ env \in [stack : Stacks, project : Projects, gcp_project : GcpProjects]
    /\ registered = << >>
    /\ wpc = << >>
    /\ wi = << >>
    /\ created = {}

Next ==
    \/ \E a \in WorkerPoolClusterArgs : WorkerPoolClusterInit(a)
    \/ \E a \in WorkloadIdentityArgs : WorkloadIdentityInit(a)
    \/ \E i \in 1..Len(registered) : Apply(i)

Spec == Init /\ [][Next]_vars

----------------------------------------------------------------------------
(* Properties *)

\* The requests issued with the component `self` as parent, in program order
ChildrenOf(self) == SelectSeq(registered, LAMBDA r : r.opts.parent = Some(self))

\* The request registered under an id
RequestOf(id) == registered[CHOOSE i \in 1..Len(registered) : registered[i].id = id]

\* Position of an id in the program order
IndexOf(id) == CHOOSE i \in 1..Len(registered) : registered[i].id = id

ClusterType == "gcp:container/cluster:Cluster"
NodePoolType == "gcp:container/nodePool:NodePool"

\* C1: constructing a WorkerPoolCluster issues exactly three resource
\* requests, in the order Cluster, NodePool "nodepool-core", NodePool
\* "nodepool-worker"; each has the component as parent, both node pools
\* reference the name of the cluster of the first request, and the three are
\* the attributes cluster, nodepool_core and nodepool_worker.
C1_FixedTopology ==
    \A k \in 1..Len(wpc) :
        LET o  == wpc[k]
            ch == ChildrenOf(o.self)
        IN  /\ Len(ch) = 3
            /\ ch[1].type = ClusterType
            /\ ch[2].type = NodePoolType /\ ch[2].name = "nodepool-core"
            /\ ch[3].type = NodePoolType /\ ch[3].name = "nodepool-worker"
            /\ IndexOf(o.self) < IndexOf(ch[1].id)
            /\ IndexOf(ch[1].id) < IndexOf(ch[2].id)
            /\ IndexOf(ch[2].id) < IndexOf(ch[3].id)
            /\ \A j \in 1..3 : ch[j].opts.parent = Some(o.self)
            /\ ch[2].props.cluster = Out(ch[1].id, "name")
            /\ ch[3].props.cluster = Out(ch[1].id, "name")
            /\ o.cluster = ch[1].id
            /\ o.nodepool_core = ch[2].id
            /\ o.nodepool_worker = ch[3].id

\* A WorkerPoolCluster with non-default arguments has been constructed after
\* a WorkloadIdentity, and all its resources have been created.
C1_Witness ==
    /\ Len(wpc) = 1 /\ Len(wi) >= 1
    /\ IndexOf(wi[1].self) < IndexOf(wpc[1].self)
    /\ wpc[1].args.preemptible_core /\ wpc[1].args.enable_servicemesh
    /\ {wpc[1].cluster, wpc[1].nodepool_core, wpc[1].nodepool_worker} \subseteq created

\* The taints of the worker node pool of a WorkerPoolCluster
WorkerTaintsOf(o) == RequestOf(o.nodepool_worker).props.node_config.taints

HasTaint(ts, key, value, effect) ==
    \E j \in 1..Len(ts) : ts[j] = [key |-> key, value |-> value, effect |-> effect]

\* C2: the worker node pool of every WorkerPoolCluster has two taints, a
\* NO_SCHEDULE taint dedicated=worker and a NO_SCHEDULE taint
\* preemptible=true.
C2_WorkerTwoTaints ==
    \A k \in 1..Len(wpc) :
        /\ Len(WorkerTaintsOf(wpc[k])) = 2
        /\ HasTaint(WorkerTaintsOf(wpc[k]), "dedicated", "worker", "NO_SCHEDULE")
        /\ HasTaint(WorkerTaintsOf(wpc[k]), "preemptible", "true", "NO_SCHEDULE")

\* C3 as stated: for every configuration the node_config of
\* "nodepool-worker" has preemptible set to true.
C3_WorkerAlwaysPreemptible ==
    \A k \in 1..Len(wpc) :
        RequestOf(wpc[k].nodepool_worker).props.node_config.preemptible = TRUE

\* C3 amended: the node_config of "nodepool-worker" has preemptible equal to
\* the preemptible_worker argument, which is true by default: a worker pool
\* constructed without passing preemptible_worker is preemptible, and one
\* constructed with preemptible_worker=False is not.
C3_WorkerPreemptibleFollowsArgument ==
    \A k \in 1..Len(wpc) :
        LET o  == wpc[k]
            nc == RequestOf(o.nodepool_worker).props.node_config
        IN  /\ RequestOf(o.nodepool_worker).name = "nodepool-worker"
            /\ nc.preemptible = o.args.preemptible_worker
            /\ (o.args.preemptible_worker
                    = WorkerPoolClusterDefaults(o.args.resource_name).preemptible_worker)
                   => nc.preemptible = TRUE

\* A WorkerPoolCluster whose core pool is preemptible and whose worker pool
\* is not.
C3_Witness ==
    /\ Len(wpc) = 1
    /\ wpc[1].args.preemptible_core /\ ~ wpc[1].args.preemptible_worker
    /\ wpc[1].nodepool_worker \in created

AccountType == "gcp:serviceAccount/account:Account"
ServiceAccountType == "kubernetes:core/v1:ServiceAccount"
IAMMemberType == "gcp:serviceAccount/iAMMember:IAMMember"

\* C4: constructing a WorkloadIdentity issues exactly three resource
\* requests in the order GCP service account, Kubernetes service account,
\* IAM member; the IAM member has role roles/iam.workloadIdentityUser and
\* depends on both service accounts, so it is never created before both
\* service accounts exist; all three have the component as parent and are
\* the attributes gcp_serviceaccount, k8s_serviceaccount and
\* sa_binding_iammember.
C4_IdentityTopology ==
    \A k \in 1..Len(wi) :
        LET o  == wi[k]
            ch == ChildrenOf(o.self)
        IN  /\ Len(ch) = 3
            /\ ch[1].type = AccountType
            /\ ch[2].type = ServiceAccountType
            /\ ch[3].type = IAMMemberType
            /\ IndexOf(o.self) < IndexOf(ch[1].id)
            /\ IndexOf(ch[1].id) < IndexOf(ch[2].id)
            /\ IndexOf(ch[2].id) < IndexOf(ch[3].id)
            /\ \A j \in 1..3 : ch[j].opts.parent = Some(o.self)
            /\ ch[3].props.role = "roles/iam.workloadIdentityUser"
            /\ ch[3].opts.depends_on = {ch[1].id, ch[2].id}
            /\ o.gcp_serviceaccount = ch[1].id
            /\ o.k8s_serviceaccount = ch[2].id
            /\ o.sa_binding_iammember = ch[3].id
            /\ ch[3].id \in created => {ch[1].id, ch[2].id} \subseteq created

\* Two WorkloadIdentity components: the IAM member of the second has been
\* created while the first still waits for its Kubernetes service account.
C4_Witness ==
    /\ Len(wi) = 2
    /\ wi[2].sa_binding_iammember \in created
    /\ wi[1].gcp_serviceaccount \in created
    /\ wi[1].k8s_serviceaccount \notin created

\* C5: for every configuration the Istio addon of the cluster is not
\* disabled, its workload identity namespace is "<gcp project>.svc.id.goog",
\* and both node pools use the GKE_METADATA_SERVER node metadata mode.
C5_IstioAndWorkloadIdentity ==
    \A k \in 1..Len(wpc) :
        LET o  == wpc[k]
            cl == RequestOf(o.cluster).props
        IN  /\ cl.addons_config.istioConfig.disabled = FALSE
            /\ ~ env.gcp_project.isNone =>
                   cl.workload_identity_config.identityNamespace
                       = env.gcp_project.val \o ".svc.id.goog"
            /\ RequestOf(o.nodepool_core).props.node_config
                   .workloadMetadataConfig.nodeMetadata = "GKE_METADATA_SERVER"
            /\ RequestOf(o.nodepool_worker).props.node_config
                   .workloadMetadataConfig.nodeMetadata = "GKE_METADATA_SERVER"

====
